---------------------------- MODULE Spec2Model ----------------------------
(***************************************************************************)
(* Model of MainComponent::displayIxmlFromFile (Source/MainComponent.cpp): *)
(* the RIFF/WAVE envelope check, the chunk loop, the fmt / bext / iXML     *)
(* decoders, the skip of unrecognized chunks and the assembly of the text  *)
(* that is shown.  The file is a sequence of bytes (0..255); the stream is *)
(* a juce::FileInputStream, whose read cursor is the variable pos.         *)
(***************************************************************************)
EXTENDS Integers, Sequences, FiniteSets, TLC

VARIABLES
    file,           \* the bytes of the file that was chosen
    fileOpens,      \* whether file.createInputStream() yields a stream
    pc,             \* position of the control flow inside displayIxmlFromFile
    pos,            \* read cursor of inputStream
    chunkId,        \* local chunkId[4] of the current loop iteration
    chunkSize,      \* local chunkSize of the current loop iteration
    ixmlFound,      \* local flag
    bextFound,      \* local flag
    formatSummary,  \* local text, one entry per decoded fmt chunk
    bextSummary,    \* local text, one entry per decoded bext chunk
    ixmlContent,    \* local text (bytes)
    xmlDisplay,     \* the text editor's content
    idRead,         \* what the last read (chunkId, 4) returned, -1 before any
    headersRead,    \* history: the chunk headers the loop has read so far
    earlier         \* history: the parses that ended before the current one

vars == <<file, fileOpens, pc, pos, chunkId, chunkSize, ixmlFound, bextFound,
          formatSummary, bextSummary, ixmlContent, xmlDisplay, idRead,
          headersRead, earlier>>

(***************************************************************************)
(* Bounds of the model.                                                    *)
(***************************************************************************)
MaxChunks == 2      \* chunks written after the envelope
MaxTrailing == 3    \* stray bytes appended after the last chunk
MaxParses == 2      \* files opened one after the other

(***************************************************************************)
(* Program constants.                                                      *)
(***************************************************************************)
bytesRead == 16         \* int bytesRead = 2 + 2 + 4 + 4 + 2 + 2
bextBytesRead == 346    \* int bextBytesRead = 346

(***************************************************************************)
(* Byte strings.                                                           *)
(***************************************************************************)
TagRIFF == <<82, 73, 70, 70>>       \* "RIFF"
TagWAVE == <<87, 65, 86, 69>>       \* "WAVE"
IdFmt   == <<102, 109, 116, 32>>    \* "fmt "
IdBext  == <<98, 101, 120, 116>>    \* "bext"
IdIxml  == <<105, 88, 77, 76>>      \* "iXML"

Min(a, b) == IF a <= b THEN a ELSE b

Zeros(n) == [i \in 1..n |-> 0]

(***************************************************************************)
(* juce::InputStream on a file: read, skipNextBytes, isExhausted and the   *)
(* little-endian readers.  Each operator takes the cursor p and returns    *)
(* what the call yields; the cursor after the call is StreamAdvance.       *)
(***************************************************************************)
Remaining(p) == Len(file) - p

\* inputStream->isExhausted()
isExhausted(p) == p >= Len(file)

\* the bytes inputStream->read (buffer, n) stores; its return value is their number
StreamRead(p, n) == SubSeq(file, p + 1, p + Min(n, Remaining(p)))

\* the cursor after read (buffer, n) or skipNextBytes (n): it stops at the end
StreamAdvance(p, n) ==
    IF n <= 0 THEN p
    ELSE IF n >= Remaining(p) THEN Len(file) ELSE p + n

\* ByteOrder::littleEndianShort, as a signed short
SignedShort(b) ==
    LET u == b[1] + 256 * b[2] IN IF u >= 32768 THEN u - 65536 ELSE u

\* the four bytes taken in big-endian order
SignedInt_BigEndian(b) ==
    LET hi == IF b[1] >= 128 THEN b[1] - 256 ELSE b[1]
    IN  hi * 16777216 + b[2] * 65536 + b[3] * 256 + b[4]

\* ByteOrder::littleEndianInt, as a signed 32-bit int
SignedInt(b) ==
    LET hi == IF b[4] >= 128 THEN b[4] - 256 ELSE b[4]
    IN  hi * 16777216 + b[3] * 65536 + b[2] * 256 + b[1]

\* inputStream->readShort(): 0 when fewer than 2 bytes are left
readShort(p) ==
    IF Remaining(p) >= 2 THEN SignedShort(StreamRead(p, 2)) ELSE 0

\* inputStream->readInt(): 0 when fewer than 4 bytes are left
readInt(p) ==
    IF Remaining(p) >= 4 THEN SignedInt(StreamRead(p, 4)) ELSE 0

\* inputStream->readInt64(), kept as its 8 little-endian bytes: 0 when fewer
\* than 8 bytes are left
readInt64(p) ==
    IF Remaining(p) >= 8 THEN StreamRead(p, 8) ELSE Zeros(8)


(***************************************************************************)
(* juce::String: construction from bytes, trim(), and the XML round trip.  *)
(* The bytes of the model's files are ASCII, so a character is a byte.     *)
(***************************************************************************)
\* CharacterFunctions::isWhitespace
isWhitespace(c) == c \in {9, 10, 11, 12, 13, 32}

\* String::fromUTF8 (data, size): the characters before the first null
fromUTF8(b) ==
    LET nulls == {i \in 1..Len(b) : b[i] = 0}
    IN  IF nulls = {} THEN b
        ELSE SubSeq(b, 1, (CHOOSE i \in nulls : \A j \in nulls : i <= j) - 1)

\* String::trim(): without the leading and the trailing whitespace
trim(t) ==
    LET solid == {i \in 1..Len(t) : ~isWhitespace(t[i])}
    IN  IF solid = {} THEN <<>>
        ELSE SubSeq(t, CHOOSE i \in solid : \A j \in solid : i <= j,
                       CHOOSE i \in solid : \A j \in solid : j <= i)

isLetter(c) == c \in 65..90 \/ c \in 97..122

\* juce::XmlDocument::parse (xmlString), for documents made of one empty
\* element <n/> with a one-letter name: the tag name, or <<>> for nullptr.
\* Text that does not open with '<' after leading whitespace is no document.
XmlDocumentParse(xmlString) ==
    LET solid == {i \in 1..Len(xmlString) : ~isWhitespace(xmlString[i])}
        first == IF solid = {} THEN 1
                 ELSE CHOOSE i \in solid : \A j \in solid : i <= j
        t     == SubSeq(xmlString, first, Len(xmlString))
    IN  IF Len(t) >= 4 /\ t[1] = 60 /\ isLetter(t[2]) /\ t[3] = 47 /\ t[4] = 62
        THEN <<t[2]>>
        ELSE <<>>

\* <?xml version="1.0" encoding="UTF-8"?>
XmlHeader == <<60, 63, 120, 109, 108, 32, 118, 101, 114, 115, 105, 111, 110,
               61, 34, 49, 46, 48, 34, 32, 101, 110, 99, 111, 100, 105, 110,
               103, 61, 34, 85, 84, 70, 45, 56, 34, 63, 62>>

NewLine == <<13, 10>>

\* parsedXml->toString(): the default header, a blank line, the element
XmlToString(tagName) ==
    XmlHeader \o NewLine \o NewLine \o <<60>> \o tagName \o <<47, 62>> \o NewLine

\* no fallback to the raw text
IxmlText_NoFallback(payload) ==
    LET parsedXml == XmlDocumentParse(fromUTF8(payload))
    IN  IF parsedXml # <<>> THEN XmlToString(parsedXml) ELSE <<>>

\* lines 189-200: the text stored in ixmlContent for a payload read in full
IxmlText(payload) ==
    LET xmlString == fromUTF8(payload)
        parsedXml == XmlDocumentParse(xmlString)
    IN  IF parsedXml # <<>> THEN XmlToString(parsedXml) ELSE xmlString

(***************************************************************************)
(* The fmt decoder, lines 124-144.                                         *)
(***************************************************************************)
\* "PCM" or "Compressed (Format ID: n)"
AudioFormatText(audioFormat) ==
    IF audioFormat = 1 THEN <<"PCM">> ELSE <<"Compressed", audioFormat>>

\* the four lines appended to formatSummary, read with the cursor at p
FmtEntry(p) ==
    LET p1 == StreamAdvance(p, 2)
        p2 == StreamAdvance(p1, 2)
        p3 == StreamAdvance(p2, 4)
        p4 == StreamAdvance(p3, 4)
        p5 == StreamAdvance(p4, 2)
    IN  [audioFormat   |-> AudioFormatText(readShort(p)),
         numChannels   |-> readShort(p1),
         sampleRate    |-> readInt(p2),
         bitsPerSample |-> readShort(p5)]

\* the cursor after the fmt branch
FmtEnd(p, size) ==
    LET p6 == StreamAdvance(StreamAdvance(StreamAdvance(StreamAdvance(
                  StreamAdvance(StreamAdvance(p, 2), 2), 4), 4), 2), 2)
    IN  IF size > bytesRead THEN StreamAdvance(p6, size - bytesRead) ELSE p6

(***************************************************************************)
(* The bext decoder, lines 149-174.  readBextField reads into a            *)
(* MemoryBlock that is not zeroed: the bytes a short read leaves unwritten *)
(* are whatever the allocation held, either nulls or a stale character.    *)
(***************************************************************************)
BextFieldSizes == <<256, 32, 32, 10, 8>>

StaleBytes == {0, 63}

\* what the five MemoryBlocks of one bext chunk can hold: each field has a
\* block of its own, so stale[k] for field k is chosen apart from the others
StalePatterns == [1..5 -> StaleBytes]

\* what the unwritten tail of a MemoryBlock of n bytes can hold
Unwritten(n, stale) == IF n = 0 THEN <<>> ELSE <<stale>> \o Zeros(n - 1)

\* readBextField (numBytes) with the cursor at p
readBextField(p, numBytes, stale) ==
    LET got == StreamRead(p, numBytes)
    IN  trim(fromUTF8(got \o Unwritten(numBytes - Len(got), stale)))

\* the cursor before field k (k = 6: before the time reference)
BextFieldStart(p, k) ==
    LET RECURSIVE at(_)
        at(i) == IF i = 1 THEN p
                 ELSE StreamAdvance(at(i - 1), BextFieldSizes[i - 1])
    IN  at(k)

\* the six lines appended to bextSummary
BextEntry(p, stale) ==
    [description     |-> readBextField(BextFieldStart(p, 1), 256, stale[1]),
     originator      |-> readBextField(BextFieldStart(p, 2), 32, stale[2]),
     originatorRef   |-> readBextField(BextFieldStart(p, 3), 32, stale[3]),
     originationDate |-> readBextField(BextFieldStart(p, 4), 10, stale[4]),
     originationTime |-> readBextField(BextFieldStart(p, 5), 8, stale[5]),
     timeReference   |-> readInt64(BextFieldStart(p, 6))]

\* the bext branch without the skip of the surplus
BextEnd_NoSurplus(p, size) == StreamAdvance(BextFieldStart(p, 6), 8)

\* the cursor after the bext branch
BextEnd(p, size) ==
    LET p6 == StreamAdvance(BextFieldStart(p, 6), 8)
    IN  IF size > bextBytesRead THEN StreamAdvance(p6, size - bextBytesRead)
        ELSE p6

(***************************************************************************)
(* The else branch, lines 206-213: skip the payload and its padding byte.  *)
(***************************************************************************)
\* the skip counted from the start of the chunk header, not of the payload
SkipEnd_FromHeader(p, size) ==
    LET q == StreamAdvance(p - 8, size)
    IN  IF size % 2 # 0 THEN StreamAdvance(q, 1) ELSE q

\* the skip without the padding byte
SkipEnd_NoPadding(p, size) == StreamAdvance(p, size)

SkipEnd(p, size) ==
    LET q == StreamAdvance(p, size)
    IN  IF size % 2 # 0 THEN StreamAdvance(q, 1) ELSE q


(***************************************************************************)
(* The files the model opens: a RIFF/WAVE envelope, up to MaxChunks chunks *)
(* and up to MaxTrailing stray bytes; and files whose envelope is broken.  *)
(***************************************************************************)
IdJunk     == <<106, 117, 110, 107>>   \* "junk"
IdIxmlCaps == <<73, 88, 77, 76>>       \* "IXML"
TagRIFX    == <<82, 73, 70, 88>>       \* "RIFX"
TagWAVX    == <<87, 65, 86, 88>>       \* "WAVX"
NotXml     == <<110, 111, 116, 32, 120, 109, 108>>   \* "not xml"
XmlDoc     == <<60, 97, 47, 62>>                     \* "<a/>"

\* n < 2^24 as four little-endian bytes
LE32(n) == <<n % 256, (n \div 256) % 256, (n \div 65536) % 256, 0>>

\* PCM, 2 channels, 8000 Hz, byte rate 32000, block align 4, 16 bits
FmtPayload == <<1, 0, 2, 0, 64, 31, 0, 0, 0, 125, 0, 0, 4, 0, 16, 0>>

\* description "d", originator "o", reference "r", date "2", time "1",
\* time reference 1
BextPayload ==
    <<100>> \o Zeros(255) \o <<111>> \o Zeros(31) \o <<114>> \o Zeros(31)
    \o <<50>> \o Zeros(9) \o <<49>> \o Zeros(7) \o <<1>> \o Zeros(7)

\* the first n bytes of a payload, zero-filled when n is larger
Body(payload, n) ==
    IF n <= Len(payload) THEN SubSeq(payload, 1, n)
    ELSE payload \o Zeros(n - Len(payload))

\* a payload with the padding byte a writer appends to an odd payload
WithPad(b) == IF Len(b) % 2 = 1 THEN b \o <<0>> ELSE b

Chunk(id, sizeBytes, body) == id \o sizeBytes \o body

WellFormed(id, payload) == Chunk(id, LE32(Len(payload)), WithPad(payload))

ChunkTemplates ==
    {WellFormed(IdFmt, Body(FmtPayload, n)) : n \in {14, 16, 17}}
    \cup {WellFormed(IdBext, Body(BextPayload, n)) : n \in {100, 346, 347}}
    \cup {WellFormed(IdIxml, t) : t \in {<<>>, NotXml, XmlDoc}}
    \cup {WellFormed(IdJunk, Zeros(n)) : n \in {0, 5}}
    \cup {WellFormed(IdIxmlCaps, XmlDoc)}
    \* a size field that is negative as a signed int
    \cup {Chunk(id, <<0, 0, 0, 128>>, <<>>) : id \in {IdFmt, IdBext, IdIxml}}
    \cup {Chunk(IdJunk, <<255, 255, 255, 255>>, <<>>)}
    \* the largest positive size
    \cup {Chunk(IdJunk, <<255, 255, 255, 127>>, <<>>)}
    \* a payload shorter than the size field says
    \cup {Chunk(IdFmt, LE32(16), Body(FmtPayload, 10)),
          Chunk(IdBext, LE32(346), Body(BextPayload, 100)),
          Chunk(IdIxml, LE32(7), Body(NotXml, 3))}

\* the bytes of up to n chunks, one after the other
RECURSIVE ChunkBytes(_)
ChunkBytes(n) ==
    IF n = 0 THEN {<<>>}
    ELSE ChunkBytes(n - 1)
         \cup {b \o c : b \in ChunkBytes(n - 1), c \in ChunkTemplates}

Stray(k) == [i \in 1..k |-> 120]

Envelope(tag, form, rest) == tag \o LE32(Len(rest) + 4) \o form \o rest

GoodFiles ==
    {Envelope(TagRIFF, TagWAVE, b \o Stray(k)) :
        b \in ChunkBytes(MaxChunks), k \in 0..MaxTrailing}

BrokenFiles ==
    {Envelope(TagRIFX, TagWAVE, b) : b \in ChunkBytes(1)}
    \cup {Envelope(TagRIFF, TagWAVX, b) : b \in ChunkBytes(1)}
    \cup {SubSeq(Envelope(TagRIFF, TagWAVE, <<>>), 1, n) : n \in 0..11}

Files == GoodFiles \cup BrokenFiles

(***************************************************************************)
(* The text editor's content.  msg names the text that is shown:           *)
(*   "Prompt"           "Select a Broadcast WAV file to view ..."          *)
(*   "Cleared"          the empty text after xmlDisplay.clear()            *)
(*   "IoError"          "Error: Could not open file for reading."          *)
(*   "InvalidContainer" "Error: This does not appear to be a valid RIFF    *)
(*                       (WAV) file."                                      *)
(*   "InvalidFormat"    "Error: This is not a WAVE file."                  *)
(*   "InvalidChunkSize" "Error: Encountered an invalid chunk size."        *)
(*   "Result"           the assembled finalText, whose three parts follow  *)
(***************************************************************************)
Message(msg) ==
    [msg |-> msg,
     formatFound |-> FALSE, format |-> <<>>,
     bextFound |-> FALSE, bext |-> <<>>,
     ixmlFound |-> FALSE, ixml |-> <<>>]

\* lines 218-250: finalText
FinalText(fmtSum, bFound, bSum, iFound, iContent) ==
    [msg |-> "Result",
     formatFound |-> fmtSum # <<>>, format |-> fmtSum,
     bextFound |-> bFound, bext |-> IF bFound THEN bSum ELSE <<>>,
     ixmlFound |-> iFound, ixml |-> IF iFound THEN iContent ELSE <<>>]

Errors == {"IoError", "InvalidContainer", "InvalidFormat", "InvalidChunkSize"}

(***************************************************************************)
(* Initial state: the component is constructed and a file has been chosen. *)
(***************************************************************************)
NoResult ==
    /\ ixmlFound = FALSE
    /\ bextFound = FALSE
    /\ formatSummary = <<>>
    /\ bextSummary = <<>>
    /\ ixmlContent = <<>>

Init ==
    /\ file \in Files
    /\ fileOpens \in IF file \in BrokenFiles THEN BOOLEAN ELSE {TRUE}
    /\ pc = "open"
    /\ pos = 0
    /\ chunkId = <<>>
    /\ chunkSize = 0
    /\ NoResult
    /\ xmlDisplay = Message("Prompt")
    /\ idRead = -1
    /\ headersRead = <<>>
    /\ earlier = <<>>

locals == <<chunkId, chunkSize, ixmlFound, bextFound, formatSummary,
            bextSummary, ixmlContent, idRead, headersRead>>

results == <<ixmlFound, bextFound, formatSummary, bextSummary, ixmlContent>>

\* the comparison of the first three characters only
TagMismatch_ThreeChars(got, tag) ==
    Len(got) # 4 \/ SubSeq(got, 1, 3) # SubSeq(tag, 1, 3)

\* lines 80 and 91: read (header, 4) != 4 || juce::String (header, 4) != tag
TagMismatch(got, tag) == Len(got) # 4 \/ got # tag

\* lines 64-73: clear the display and open the stream
OpenStream ==
    /\ pc = "open"
    /\ IF fileOpens
       THEN /\ xmlDisplay' = Message("Cleared")
            /\ pc' = "riff"
       ELSE /\ xmlDisplay' = Message("IoError")
            /\ pc' = "failed"
    /\ UNCHANGED <<file, fileOpens, earlier, pos, locals>>

\* lines 79-84: the "RIFF" tag
CheckRiff ==
    /\ pc = "riff"
    /\ pos' = StreamAdvance(pos, 4)
    /\ IF TagMismatch(StreamRead(pos, 4), TagRIFF)
       THEN /\ xmlDisplay' = Message("InvalidContainer")
            /\ pc' = "failed"
       ELSE /\ pc' = "size"
            /\ UNCHANGED xmlDisplay
    /\ UNCHANGED <<file, fileOpens, earlier, locals>>

\* line 87: skip the overall file size
SkipFileSize ==
    /\ pc = "size"
    /\ pos' = StreamAdvance(pos, 4)
    /\ pc' = "wave"
    /\ UNCHANGED <<file, fileOpens, earlier, xmlDisplay, locals>>

\* the "WAVE" check without its return: the error is shown and the walk starts
CheckWave_NoReturn ==
    /\ pc = "wave"
    /\ pos' = StreamAdvance(pos, 4)
    /\ xmlDisplay' = IF TagMismatch(StreamRead(pos, 4), TagWAVE)
                     THEN Message("InvalidFormat")
                     ELSE xmlDisplay
    /\ pc' = "walk"
    /\ UNCHANGED <<file, fileOpens, earlier, locals>>

\* lines 90-101: the "WAVE" tag, then the locals of the walk
CheckWave ==
    /\ pc = "wave"
    /\ pos' = StreamAdvance(pos, 4)
    /\ IF TagMismatch(StreamRead(pos, 4), TagWAVE)
       THEN /\ xmlDisplay' = Message("InvalidFormat")
            /\ pc' = "failed"
       ELSE /\ pc' = "walk"
            /\ UNCHANGED xmlDisplay
    /\ UNCHANGED <<file, fileOpens, earlier, locals>>

\* line 104: the loop condition fails
WalkExhausted ==
    /\ pc = "walk"
    /\ isExhausted(pos)
    /\ pc' = "assemble"
    /\ UNCHANGED <<file, fileOpens, earlier, pos, xmlDisplay, locals>>

\* the size taken as unsigned: never invalid
InvalidSize_Unsigned(size) == FALSE

\* line 112: the size check
InvalidSize(size) == size < 0

\* a short read of the chunk id reported as an error
ReadChunkHeader_ShortIdFails ==
    /\ pc = "walk"
    /\ ~isExhausted(pos)
    /\ LET id   == StreamRead(pos, 4)
           p1   == StreamAdvance(pos, 4)
           size == readInt(p1)
           p2   == StreamAdvance(p1, 4)
       IN  /\ idRead' = Len(id)
           /\ IF Len(id) # 4
              THEN /\ pos' = p1
                   /\ pc' = "failed"
                   /\ xmlDisplay' = Message("InvalidChunkSize")
                   /\ UNCHANGED <<chunkId, chunkSize, headersRead>>
              ELSE /\ pos' = p2
                   /\ chunkId' = id
                   /\ chunkSize' = size
                   /\ headersRead' = Append(headersRead,
                         [at |-> pos, id |-> id, size |-> size, payloadStart |-> p2])
                   /\ IF InvalidSize(size)
                      THEN /\ xmlDisplay' = Message("InvalidChunkSize")
                           /\ pc' = "failed"
                      ELSE /\ pc' = "dispatch"
                           /\ UNCHANGED xmlDisplay
    /\ UNCHANGED <<file, fileOpens, earlier, results>>

\* lines 104-118: read the next chunk's id and size
ReadChunkHeader ==
    /\ pc = "walk"
    /\ ~isExhausted(pos)
    /\ LET id   == StreamRead(pos, 4)
           p1   == StreamAdvance(pos, 4)
           size == readInt(p1)
           p2   == StreamAdvance(p1, 4)
       IN  /\ idRead' = Len(id)
           /\ IF Len(id) # 4
              THEN /\ pos' = p1
                   /\ pc' = "assemble"
                   /\ UNCHANGED <<chunkId, chunkSize, xmlDisplay, headersRead>>
              ELSE /\ pos' = p2
                   /\ chunkId' = id
                   /\ chunkSize' = size
                   /\ headersRead' = Append(headersRead,
                         [at |-> pos, id |-> id, size |-> size, payloadStart |-> p2])
                   /\ IF InvalidSize(size)
                      THEN /\ xmlDisplay' = Message("InvalidChunkSize")
                           /\ pc' = "failed"
                      ELSE /\ pc' = "dispatch"
                           /\ UNCHANGED xmlDisplay
    /\ UNCHANGED <<file, fileOpens, earlier, results>>


\* an ASCII letter in lower case
ToLower(c) == IF c \in 65..90 THEN c + 32 ELSE c

\* the comparison without regard to letter case
IdIs_IgnoreCase(id, name) ==
    [i \in 1..Len(id) |-> ToLower(id[i])] = [i \in 1..Len(name) |-> ToLower(name[i])]

\* lines 120, 146, 176: currentChunkId == "fmt " / "bext" / "iXML"
IdIs(id, name) == id = name

\* lines 120-145: the "fmt " branch
DecodeFmt ==
    /\ pc = "dispatch"
    /\ IdIs(chunkId, IdFmt)
    /\ formatSummary' = Append(formatSummary, FmtEntry(pos))
    /\ pos' = FmtEnd(pos, chunkSize)
    /\ pc' = "walk"
    /\ UNCHANGED <<file, fileOpens, earlier, chunkId, chunkSize, ixmlFound, bextFound,
                   bextSummary, ixmlContent, xmlDisplay, idRead, headersRead>>

\* lines 146-175: the "bext" branch
DecodeBext ==
    /\ pc = "dispatch"
    /\ IdIs(chunkId, IdBext)
    /\ bextFound' = TRUE
    /\ \E stale \in StalePatterns :
          bextSummary' = Append(bextSummary, BextEntry(pos, stale))
    /\ pos' = BextEnd(pos, chunkSize)
    /\ pc' = "walk"
    /\ UNCHANGED <<file, fileOpens, earlier, chunkId, chunkSize, ixmlFound,
                   formatSummary, ixmlContent, xmlDisplay, idRead, headersRead>>

\* line 185: whether the whole payload could be read
IxmlReadInFull(p, size) == Len(StreamRead(p, size)) = size

\* the flag set only once the payload was read
DecodeIxml_FoundWhenRead ==
    /\ pc = "dispatch"
    /\ IdIs(chunkId, IdIxml)
    /\ ixmlFound' = (ixmlFound \/ IxmlReadInFull(pos, chunkSize))
    /\ ixmlContent' = IF IxmlReadInFull(pos, chunkSize)
                      THEN IxmlText(StreamRead(pos, chunkSize))
                      ELSE ixmlContent
    /\ pos' = StreamAdvance(pos, chunkSize)
    /\ pc' = "walk"
    /\ UNCHANGED <<file, fileOpens, earlier, chunkId, chunkSize, bextFound,
                   formatSummary, bextSummary, xmlDisplay, idRead, headersRead>>

\* the stored content cleared when the payload is cut short
DecodeIxml_ClearsOnShortRead ==
    /\ pc = "dispatch"
    /\ IdIs(chunkId, IdIxml)
    /\ ixmlFound' = TRUE
    /\ ixmlContent' = IF IxmlReadInFull(pos, chunkSize)
                      THEN IxmlText(StreamRead(pos, chunkSize))
                      ELSE <<>>
    /\ pos' = StreamAdvance(pos, chunkSize)
    /\ pc' = "walk"
    /\ UNCHANGED <<file, fileOpens, earlier, chunkId, chunkSize, bextFound,
                   formatSummary, bextSummary, xmlDisplay, idRead, headersRead>>

\* lines 176-202: the "iXML" branch
DecodeIxml ==
    /\ pc = "dispatch"
    /\ IdIs(chunkId, IdIxml)
    /\ ixmlFound' = TRUE
    /\ ixmlContent' = IF IxmlReadInFull(pos, chunkSize)
                      THEN IxmlText(StreamRead(pos, chunkSize))
                      ELSE ixmlContent
    /\ pos' = StreamAdvance(pos, chunkSize)
    /\ pc' = "walk"
    /\ UNCHANGED <<file, fileOpens, earlier, chunkId, chunkSize, bextFound,
                   formatSummary, bextSummary, xmlDisplay, idRead, headersRead>>

\* the else branch keeping the bytes it passes over as the iXML text
SkipUnrecognized_KeepsBytes ==
    /\ pc = "dispatch"
    /\ ~IdIs(chunkId, IdFmt) /\ ~IdIs(chunkId, IdBext) /\ ~IdIs(chunkId, IdIxml)
    /\ ixmlContent' = StreamRead(pos, chunkSize)
    /\ pos' = SkipEnd(pos, chunkSize)
    /\ pc' = "walk"
    /\ UNCHANGED <<file, fileOpens, earlier, xmlDisplay, chunkId, chunkSize,
                   ixmlFound, bextFound, formatSummary, bextSummary, idRead,
                   headersRead>>

\* lines 203-214: any other chunk id
SkipUnrecognized ==
    /\ pc = "dispatch"
    /\ ~IdIs(chunkId, IdFmt) /\ ~IdIs(chunkId, IdBext) /\ ~IdIs(chunkId, IdIxml)
    /\ pos' = SkipEnd(pos, chunkSize)
    /\ pc' = "walk"
    /\ UNCHANGED <<file, fileOpens, earlier, xmlDisplay, locals>>

\* lines 217-252: assemble the final text and show it
AssembleResult ==
    /\ pc = "assemble"
    /\ xmlDisplay' = FinalText(formatSummary, bextFound, bextSummary,
                               ixmlFound, ixmlContent)
    /\ pc' = "done"
    /\ UNCHANGED <<file, fileOpens, earlier, pos, locals>>

Next ==
    \/ OpenStream
    \/ CheckRiff
    \/ SkipFileSize
    \/ CheckWave
    \/ WalkExhausted
    \/ ReadChunkHeader
    \/ DecodeFmt
    \/ DecodeBext
    \/ DecodeIxml
    \/ SkipUnrecognized
    \/ AssembleResult

Spec == Init /\ [][Next]_vars

(***************************************************************************)
(* A second file chosen in the same component: openFile, lines 256-276,    *)
(* calls displayIxmlFromFile again.  The file is the same one, or one that *)
(* differs from it in the overall size field (bytes 4..7) alone.           *)
(***************************************************************************)
SizeFields == {<<0, 0, 0, 0>>, <<0, 0, 0, 128>>, <<255, 255, 255, 255>>}

WithSizeField(f, field) ==
    IF Len(f) < 8 THEN f ELSE SubSeq(f, 1, 4) \o field \o SubSeq(f, 9, Len(f))

OpenAgain ==
    /\ pc \in {"done", "failed"}
    /\ Len(earlier) < MaxParses - 1
    /\ earlier' = Append(earlier, [file |-> file, display |-> xmlDisplay,
                                    headers |-> headersRead, pos |-> pos])
    /\ file' \in {file} \cup {WithSizeField(file, field) : field \in SizeFields}
    /\ pc' = "open"
    /\ pos' = 0
    /\ chunkId' = <<>>
    /\ chunkSize' = 0
    /\ ixmlFound' = FALSE
    /\ bextFound' = FALSE
    /\ formatSummary' = <<>>
    /\ bextSummary' = <<>>
    /\ ixmlContent' = <<>>
    /\ idRead' = -1
    /\ headersRead' = <<>>
    /\ UNCHANGED <<fileOpens, xmlDisplay>>

NextTwice == Next \/ OpenAgain

SpecTwice == Init /\ [][NextTwice]_vars

TypeOK ==
    /\ pc \in {"open", "riff", "size", "wave", "walk", "dispatch", "assemble",
               "done", "failed"}
    /\ pos \in 0..Len(file)
    /\ xmlDisplay.msg \in {"Prompt", "Cleared", "Result"} \cup Errors


(***************************************************************************)
(* Vocabulary of the properties.  A header h of headersRead was read at    *)
(* offset h.at; its payload starts at h.payloadStart and is declared to be *)
(* h.size bytes long.                                                      *)
(***************************************************************************)
Recognized(id) == id \in {IdFmt, IdBext, IdIxml}

\* the declared payload lies inside the file
PayloadPresent(h) == h.size >= 0 /\ h.size <= Len(file) - h.payloadStart

\* the declared payload and, for an odd size, its padding byte lie inside the file
PaddedPresent(h) ==
    h.size >= 0 /\ h.size <= Len(file) - h.payloadStart - (h.size % 2)

\* where the chunk after h starts in a word-aligned file
PaddedEnd(h) == h.payloadStart + h.size + (h.size % 2)

PayloadOf(h) == SubSeq(file, h.payloadStart + 1, h.payloadStart + h.size)

\* the branch of the loop has run for header number i
Processed(i) ==
    i < Len(headersRead) \/ (i = Len(headersRead) /\ pc \in {"walk", "assemble", "done"})

\* the bytes of the file at offset q are the header of a recognized chunk whose
\* size is enough for its layout and whose payload lies inside the file
WellFormedRecognizedAt(q) ==
    /\ q + 8 <= Len(file)
    /\ LET id   == SubSeq(file, q + 1, q + 4)
           size == SignedInt(SubSeq(file, q + 5, q + 8))
       IN  /\ Recognized(id)
           /\ size >= 0
           /\ size <= Len(file) - (q + 8)
           /\ id = IdFmt => size >= bytesRead
           /\ id = IdBext => size >= bextBytesRead

\* the display reports a record for chunk id
ReportedFound(id) ==
    /\ xmlDisplay.msg = "Result"
    /\ id = IdFmt => xmlDisplay.formatFound
    /\ id = IdBext => xmlDisplay.bextFound
    /\ id = IdIxml => xmlDisplay.ixmlFound

\* C1: after every chunk whose declared size is >= 0 and whose payload lies in
\* the file, whatever its id, the next chunk header is read at
\* payloadStart + size + (size mod 2).
C1_PaddedAfterEveryChunk ==
    \A i \in 1..(Len(headersRead) - 1) :
        PayloadPresent(headersRead[i])
            => headersRead[i + 1].at = PaddedEnd(headersRead[i])

\* C2: an unrecognized chunk of odd size, present with its padding byte and
\* followed at once by a well-formed recognized chunk, does not hide it: the
\* header of that chunk is read at the padded offset and, when the parse is
\* done, that chunk is reported as found.
C2_OddUnrecognizedDoesNotHide ==
    \A i \in 1..Len(headersRead) :
        LET h == headersRead[i] IN
        (/\ ~Recognized(h.id)
         /\ h.size % 2 = 1
         /\ PaddedPresent(h)
         /\ WellFormedRecognizedAt(PaddedEnd(h)))
        => /\ pc \in {"walk", "assemble", "done", "failed"} /\ i = Len(headersRead)
                => pc = "walk" /\ pos = PaddedEnd(h)
           /\ i < Len(headersRead)
                => /\ headersRead[i + 1].at = PaddedEnd(h)
                   /\ Recognized(headersRead[i + 1].id)
                   /\ headersRead[i + 1].size >= 0
           /\ pc = "done" => ReportedFound(SubSeq(file, PaddedEnd(h) + 1, PaddedEnd(h) + 4))

C2_Witness ==
    /\ pc = "done"
    /\ xmlDisplay.bextFound
    /\ \E i \in 1..(Len(headersRead) - 1) :
          /\ headersRead[i].id = IdJunk
          /\ headersRead[i].size = 5
          /\ headersRead[i + 1].id = IdBext
          /\ headersRead[i + 1].at = headersRead[i].payloadStart + 6


\* the size field of the header read at h.at is negative as a signed 32-bit
\* integer: its most significant byte, the fourth, has the top bit set
NegativeSizeField(h) == h.at + 8 <= Len(file) /\ file[h.at + 8] >= 128

\* C3: a chunk header whose size field is negative as a signed 32-bit integer
\* ends the parse with InvalidChunkSize whatever the chunk id: it is the last
\* header read, and the display holds the error alone, with nothing of what
\* earlier chunks decoded.
C3_NegativeSizeIsFatal ==
    \A i \in 1..Len(headersRead) :
        NegativeSizeField(headersRead[i])
            => /\ i = Len(headersRead)
               /\ pc = "failed"
               /\ xmlDisplay = Message("InvalidChunkSize")

C3_Witness ==
    /\ pc = "failed"
    /\ xmlDisplay = Message("InvalidChunkSize")
    /\ Len(headersRead) = 2
    /\ headersRead[1].id = IdFmt
    /\ formatSummary # <<>>
    /\ headersRead[2].id = IdIxml
    /\ NegativeSizeField(headersRead[2])

RiffTagPresent == Len(file) >= 4 /\ SubSeq(file, 1, 4) = TagRIFF

WaveTagPresent == Len(file) >= 12 /\ SubSeq(file, 9, 12) = TagWAVE

NoChunkRead == headersRead = <<>> /\ idRead = -1

\* C4: without "RIFF" in the first 4 bytes the parse fails with
\* InvalidContainer; otherwise, without "WAVE" in bytes 8..11, it fails with
\* InvalidFormat; in both cases no chunk header is ever read and no result is
\* shown.  Only when both tags match does the walk start, at offset 12.
C4_EnvelopeCheckedBeforeWalk ==
    /\ (fileOpens /\ ~RiffTagPresent /\ pc \notin {"open", "riff"})
          => pc = "failed" /\ xmlDisplay = Message("InvalidContainer") /\ NoChunkRead
    /\ (fileOpens /\ RiffTagPresent /\ ~WaveTagPresent
              /\ pc \notin {"open", "riff", "size", "wave"})
          => pc = "failed" /\ xmlDisplay = Message("InvalidFormat") /\ NoChunkRead
    /\ pc \in {"walk", "dispatch", "assemble", "done"} \/ ~NoChunkRead
          => RiffTagPresent /\ WaveTagPresent
    /\ (pc = "walk" /\ NoChunkRead) => pos = 12
    /\ headersRead # <<>> => headersRead[1].at = 12
    /\ xmlDisplay.msg = "Result" => RiffTagPresent /\ WaveTagPresent

C4_Witness ==
    /\ pc = "failed"
    /\ xmlDisplay = Message("InvalidFormat")
    /\ RiffTagPresent
    /\ Len(file) > 20
    /\ NoChunkRead

\* C5: a bext chunk declared smaller than 346 bytes fails for that chunk
\* alone: no BroadcastExtension is reported for it, the decoder reads nothing
\* past the declared payload, the next header is read right after the payload,
\* and an iXML chunk that follows it is still found.
C5_ShortBextIsLocalFailure ==
    \A i \in 1..Len(headersRead) :
        LET h == headersRead[i] IN
        (h.id = IdBext /\ h.size >= 0 /\ h.size < bextBytesRead /\ Processed(i))
        => /\ (i = Len(headersRead) /\ pc = "walk") => pos <= h.payloadStart + h.size
           /\ i < Len(headersRead)
                => headersRead[i + 1].at \in {h.payloadStart + h.size, PaddedEnd(h)}
           /\ (pc = "done" /\ \A j \in 1..Len(headersRead) :
                                 headersRead[j].id = IdBext
                                     => headersRead[j].size < bextBytesRead)
                => ~xmlDisplay.bextFound
           /\ (pc = "done" /\ PaddedEnd(h) + 4 <= Len(file)
                    /\ SubSeq(file, PaddedEnd(h) + 1, PaddedEnd(h) + 4) = IdIxml)
                => xmlDisplay.ixmlFound

\* C6: a fmt chunk declared smaller than 16 bytes is a decode failure that
\* does not abort the parse: no FormatInfo is reported for it, the decoder
\* reads nothing of the chunks that follow, and the next header is read right
\* after the declared payload.
C6_ShortFmtIsLocalFailure ==
    \A i \in 1..Len(headersRead) :
        LET h == headersRead[i] IN
        (h.id = IdFmt /\ h.size >= 0 /\ h.size < bytesRead /\ Processed(i))
        => /\ (i = Len(headersRead) /\ pc = "walk") => pos <= h.payloadStart + h.size
           /\ i < Len(headersRead)
                => headersRead[i + 1].at \in {h.payloadStart + h.size, PaddedEnd(h)}
           /\ (pc = "done" /\ \A j \in 1..Len(headersRead) :
                                 headersRead[j].id = IdFmt
                                     => headersRead[j].size < bytesRead)
                => ~xmlDisplay.formatFound

\* C7: a recognized chunk that declares more bytes than the stream still holds
\* is a decode failure of that chunk: the parse ends in Done and no record is
\* reported as decoded for it (no FormatInfo, no BroadcastExtension; for iXML,
\* whose found flag follows the chunk id alone, no content).
C7_ShortReadIsDecodeFailure ==
    \A i \in 1..Len(headersRead) :
        LET h == headersRead[i] IN
        (Recognized(h.id) /\ h.size >= 0 /\ ~PayloadPresent(h) /\ Processed(i))
        => /\ pc \in {"walk", "assemble", "done"}
           /\ (pc = "done" /\ \A j \in 1..Len(headersRead) :
                                 j # i => headersRead[j].id # h.id)
                => /\ xmlDisplay.msg = "Result"
                   /\ h.id = IdFmt => ~xmlDisplay.formatFound
                   /\ h.id = IdBext => ~xmlDisplay.bextFound
                   /\ h.id = IdIxml => xmlDisplay.ixml = <<>>

\* the payload of header h is text that is no XML document
NotParseable(h) == XmlDocumentParse(fromUTF8(PayloadOf(h))) = <<>>

\* header number i is the last processed iXML header whose payload was read in full
LastIxmlReadInFull(i) ==
    /\ headersRead[i].id = IdIxml
    /\ PayloadPresent(headersRead[i])
    /\ Processed(i)
    /\ \A j \in (i + 1)..Len(headersRead) :
          ~(headersRead[j].id = IdIxml /\ PayloadPresent(headersRead[j]) /\ Processed(j))

\* C8: an iXML chunk whose payload is read in full and is not parseable as XML
\* does not fail the parse: iXML is found and its content is the decoded
\* payload text unchanged, which is what the display reports when done.
C8_UnparseableIxmlKeptRaw ==
    \A i \in 1..Len(headersRead) :
        LET h == headersRead[i] IN
        (h.id = IdIxml /\ PayloadPresent(h) /\ Processed(i) /\ NotParseable(h))
        => /\ ixmlFound
           /\ i = Len(headersRead) => xmlDisplay.msg \notin Errors
           /\ LastIxmlReadInFull(i)
                => /\ ixmlContent = fromUTF8(PayloadOf(h))
                   /\ pc = "done" => /\ xmlDisplay.msg = "Result"
                                     /\ xmlDisplay.ixmlFound
                                     /\ xmlDisplay.ixml = fromUTF8(PayloadOf(h))

C8_Witness ==
    /\ pc = "done"
    /\ xmlDisplay.ixmlFound
    /\ xmlDisplay.ixml = NotXml
    /\ \E i \in 1..Len(headersRead) :
          headersRead[i].id = IdIxml /\ PayloadOf(headersRead[i]) = NotXml

\* C9: when the parse is done, iXML is reported as found exactly when a chunk
\* header with id "iXML" was read, whatever its content: also for size 0, for
\* a payload cut short by the end of the stream, and for a payload that is
\* not parseable.
C9_FoundIffIxmlHeaderRead ==
    pc = "done"
        => (xmlDisplay.ixmlFound
                <=> \E i \in 1..Len(headersRead) : headersRead[i].id = IdIxml)

C9_Witness ==
    /\ pc = "done"
    /\ xmlDisplay.ixmlFound
    /\ Len(headersRead) = 1
    /\ headersRead[1].id = IdIxml
    /\ ~PayloadPresent(headersRead[1])

\* C10: when 1 to 3 bytes are left where the next chunk id would be read, the
\* read ends the walk normally: no error is shown, what the earlier chunks
\* decoded is left as it was, and it is what the display reports when done.
C10_ShortTrailingIdEndsWalk ==
    [][/\ (pc = "walk" /\ Remaining(pos) \in 1..3)
            => /\ pc' = "assemble"
               /\ UNCHANGED results
               /\ UNCHANGED xmlDisplay
       /\ (pc = "assemble" /\ idRead \in 1..3)
            => /\ pc' = "done"
               /\ UNCHANGED results
               /\ xmlDisplay' = FinalText(formatSummary, bextFound, bextSummary,
                                          ixmlFound, ixmlContent)]_vars

C10_Witness ==
    /\ pc = "done"
    /\ idRead \in 1..3
    /\ xmlDisplay.msg = "Result"
    /\ xmlDisplay.formatFound
    /\ xmlDisplay.ixmlFound
    /\ xmlDisplay.ixml = NotXml


\* the four bytes of the size field of header h, <<>> when the file ends before
SizeField(h) ==
    IF h.at + 8 <= Len(file) THEN SubSeq(file, h.at + 5, h.at + 8) ELSE <<>>

\* C11 as stated: a header whose size field is FF FF FF 7F ends the parse with
\* InvalidChunkSize and no result.
C11_MaxPositiveSizeRejected ==
    \A i \in 1..Len(headersRead) :
        SizeField(headersRead[i]) = <<255, 255, 255, 127>>
            => /\ i = Len(headersRead)
               /\ pc = "failed"
               /\ xmlDisplay = Message("InvalidChunkSize")

\* C11 amended: the size field FF FF FF FF (-1) ends the parse with
\* InvalidChunkSize and no result; the size field FF FF FF 7F is 2147483647,
\* the largest positive size, and is not rejected: the chunk is dispatched
\* with that size, and for an unrecognized id the skip stops at the end of
\* the stream without any error.
C11_MinusOneRejectedMaxPositiveAccepted ==
    \A i \in 1..Len(headersRead) :
        LET h == headersRead[i] IN
        /\ SizeField(h) = <<255, 255, 255, 255>>
              => /\ i = Len(headersRead)
                 /\ pc = "failed"
                 /\ xmlDisplay = Message("InvalidChunkSize")
        /\ SizeField(h) = <<255, 255, 255, 127>>
              => /\ h.size = 2147483647
                 /\ xmlDisplay.msg # "InvalidChunkSize"
                 /\ pc # "failed"
                 /\ (~Recognized(h.id) /\ Processed(i))
                       => i = Len(headersRead) /\ pos = Len(file)

C11_Witness ==
    /\ pc = "done"
    /\ xmlDisplay.msg = "Result"
    /\ \E i \in 1..Len(headersRead) :
          /\ SizeField(headersRead[i]) = <<255, 255, 255, 127>>
          /\ headersRead[i].id = IdJunk


\* the current parse has ended
Ended == pc \in {"done", "failed"}

\* C12: two parses of the same bytes, each from offset 0 with fresh state, read
\* the same chunk headers at the same offsets, leave the cursor at the same
\* place and show the same text.
C12_SameBytesSameParse ==
    \A k \in 1..Len(earlier) :
        (Ended /\ earlier[k].file = file)
            => /\ xmlDisplay = earlier[k].display
               /\ headersRead = earlier[k].headers
               /\ pos = earlier[k].pos

\* f and g differ in bytes 4..7 and nowhere else
DifferInSizeFieldOnly(f, g) ==
    /\ f # g
    /\ Len(f) = Len(g)
    /\ \A i \in 1..Len(f) : i \notin 5..8 => f[i] = g[i]

\* C18: two files that differ only in the overall size field are parsed alike:
\* same chunk headers and same text shown, whatever the field holds.
C18_OverallSizeNotEnforced ==
    \A k \in 1..Len(earlier) :
        (Ended /\ DifferInSizeFieldOnly(file, earlier[k].file))
            => /\ xmlDisplay = earlier[k].display
               /\ headersRead = earlier[k].headers


\* id is no recognized id, yet equal to one when letter case is ignored
CaseVariant(id) ==
    /\ ~Recognized(id)
    /\ \E name \in {IdFmt, IdBext, IdIxml} :
          [i \in 1..Len(id) |-> ToLower(id[i])] = [i \in 1..4 |-> ToLower(name[i])]

\* every header read so far has been through its branch of the loop
AllProcessed == pc \in {"walk", "assemble", "done"}

\* C13: a chunk reaches a decoder exactly when its id is byte for byte "fmt ",
\* "bext" or "iXML": each found flag is set exactly when a header with that
\* very id was read, and a chunk whose id differs in letter case only is
\* skipped by its size plus padding.
C13_RecognitionIsExact ==
    /\ AllProcessed
          => /\ formatSummary # <<>>
                   <=> \E i \in 1..Len(headersRead) : headersRead[i].id = IdFmt
             /\ bextFound
                   <=> \E i \in 1..Len(headersRead) : headersRead[i].id = IdBext
             /\ ixmlFound
                   <=> \E i \in 1..Len(headersRead) : headersRead[i].id = IdIxml
    /\ \A i \in 1..Len(headersRead) :
          LET h == headersRead[i] IN
          (CaseVariant(h.id) /\ PaddedPresent(h) /\ Processed(i))
              => /\ i = Len(headersRead) /\ pc = "walk" => pos = PaddedEnd(h)
                 /\ i < Len(headersRead) => headersRead[i + 1].at = PaddedEnd(h)

C13_Witness ==
    /\ pc = "done"
    /\ ~xmlDisplay.ixmlFound
    /\ \E i \in 1..Len(headersRead) :
          /\ headersRead[i].id = IdIxmlCaps
          /\ PayloadOf(headersRead[i]) = XmlDoc


\* header h is a fmt chunk of at least 16 bytes or a bext chunk of at least
\* 346 bytes
LayoutFits(h) ==
    \/ h.id = IdFmt /\ h.size >= bytesRead
    \/ h.id = IdBext /\ h.size >= bextBytesRead

\* C14: for a fmt chunk of declared size >= 16 or a bext chunk of declared size
\* >= 346 whose payload lies in the file, the decoder consumes exactly the
\* declared number of bytes: the cursor after it is payloadStart + size, and
\* that is where the next header is read.
C14_DecoderConsumesDeclaredSize ==
    \A i \in 1..Len(headersRead) :
        LET h == headersRead[i] IN
        (LayoutFits(h) /\ PayloadPresent(h) /\ Processed(i))
            => /\ i = Len(headersRead) /\ pc = "walk" => pos = h.payloadStart + h.size
               /\ i < Len(headersRead)
                    => headersRead[i + 1].at = h.payloadStart + h.size

C14_Witness ==
    /\ Len(headersRead) = 2
    /\ headersRead[1].id = IdBext
    /\ headersRead[1].size = 347
    /\ headersRead[2].at = headersRead[1].payloadStart + 347
    /\ bextFound
    /\ pc = "done"


\* the steps the parse has left at most: each envelope step counts once, each
\* loop iteration twice per byte that is left
StepsLeft ==
    CASE pc = "open"     -> 2 * Len(file) + 7
      [] pc = "riff"     -> 2 * Len(file) + 6
      [] pc = "size"     -> 2 * Len(file) + 5
      [] pc = "wave"     -> 2 * Len(file) + 4
      [] pc = "dispatch" -> 2 * Remaining(pos) + 3
      [] pc = "walk"     -> 2 * Remaining(pos) + 2
      [] pc = "assemble" -> 1
      [] OTHER           -> 0

\* some step of the parse can be taken; for the "bext" branch, whose
\* assignments are defined for every state, this is its condition
StepPossible ==
    \/ ENABLED (\/ OpenStream \/ CheckRiff \/ SkipFileSize \/ CheckWave
                \/ WalkExhausted \/ ReadChunkHeader \/ DecodeFmt \/ DecodeIxml
                \/ SkipUnrecognized \/ AssembleResult)
    \/ pc = "dispatch" /\ IdIs(chunkId, IdBext)

\* C15: the parse of every file ends, in Done or in the failure state: until
\* then a step is always possible, and every step lowers the bound StepsLeft.
\* An iteration of the chunk loop leaves the loop at once (short id, negative
\* size), or consumes a whole 8-byte header, or consumes the at least 4 bytes
\* that were left and exhausts the stream, after which the loop condition
\* fails; its branch never moves the cursor back.
C15_ParseTerminates ==
    /\ [](~Ended => StepPossible)
    /\ [][/\ StepsLeft' < StepsLeft
          /\ StepsLeft' >= 0
          /\ pc = "walk"
               => \/ pc' \in {"assemble", "failed"}
                  \/ pos' >= pos + 8
                  \/ pos' >= pos + 4 /\ isExhausted(pos')
          /\ pc = "dispatch" => pc' = "walk" /\ pos' >= pos]_vars

\* a parse that ended after a header cut off by the end of the stream, which
\* is taken as a chunk of size 0
C15_Witness ==
    /\ pc = "done"
    /\ \E i \in 1..Len(headersRead) :
          /\ headersRead[i].payloadStart < headersRead[i].at + 8
          /\ headersRead[i].size = 0

\* the state of the parse the function is in
ParseState(p) ==
    CASE p \in {"open", "riff", "size", "wave"}   -> "ValidatingContainer"
      [] p \in {"walk", "dispatch", "assemble"}   -> "WalkingChunks"
      [] p = "done"                               -> "Done"
      [] p = "failed"                             -> "Failure"

\* C16: the parse goes ValidatingContainer -> WalkingChunks -> Done, with one
\* terminal failure state: the failure state is entered from
\* ValidatingContainer or WalkingChunks only, Done from WalkingChunks only,
\* WalkingChunks never goes back to ValidatingContainer, an error is shown
\* exactly when the failure state is entered, the result exactly when Done is
\* entered, and after Done or failure the cursor and the outcome stay as they
\* are.
C16_StateOrder ==
    [][/\ ParseState(pc) = "ValidatingContainer"
            => ParseState(pc') \in {"ValidatingContainer", "WalkingChunks", "Failure"}
       /\ ParseState(pc) = "WalkingChunks"
            => ParseState(pc') \in {"WalkingChunks", "Done", "Failure"}
       /\ ParseState(pc) \in {"Done", "Failure"}
            => pc' = pc /\ pos' = pos /\ xmlDisplay' = xmlDisplay
       /\ (xmlDisplay'.msg \in Errors) <=> (pc' = "failed")
       /\ (xmlDisplay'.msg = "Result") <=> (pc' = "done")
       /\ xmlDisplay.msg \in Errors \cup {"Result"} => xmlDisplay' = xmlDisplay]_vars

\* the failure state entered from WalkingChunks, after one chunk was walked
C16_Witness ==
    /\ pc = "failed"
    /\ xmlDisplay.msg = "InvalidChunkSize"
    /\ Len(headersRead) = 2
    /\ ~InvalidSize(headersRead[1].size)

\* the byte counts the branch for a chunk (id, size) passes to read and
\* skipNextBytes
RequestedCounts(id, size) ==
    IF IdIs(id, IdFmt)
    THEN {2, 4} \cup (IF size > bytesRead THEN {size - bytesRead} ELSE {})
    ELSE IF IdIs(id, IdBext)
    THEN {BextFieldSizes[k] : k \in 1..5} \cup {8}
            \cup (IF size > bextBytesRead THEN {size - bextBytesRead} ELSE {})
    ELSE IF IdIs(id, IdIxml)
    THEN {size}
    ELSE {size} \cup (IF size % 2 # 0 THEN {1} ELSE {})

\* C17: the read cursor never moves backward, in any step of the parse, and
\* no branch of the walk passes a negative byte count to a read or a skip,
\* whatever size the chunk declares.
C17_CursorNeverMovesBack ==
    [][/\ pos' >= pos
       /\ pc = "dispatch"
            => \A n \in RequestedCounts(chunkId, chunkSize) : n >= 0]_vars

\* a "fmt " chunk of 17 bytes was decoded and its surplus byte skipped
C17_Witness ==
    /\ pc = "done"
    /\ Len(headersRead) = 2
    /\ headersRead[1].id = IdFmt
    /\ headersRead[1].size = bytesRead + 1
    /\ headersRead[2].at = headersRead[1].payloadStart + bytesRead + 1

\* C19: the step that processes a chunk with an unrecognized id (its size is
\* not negative, or the walk had failed) moves the cursor past the payload
\* and, when the size is odd, past one padding byte, as far as the stream
\* goes; the presence flags, the decoded fmt, bext and iXML contents and the
\* display are left as they were.
C19_UnrecognizedChunkOnlyMovesCursor ==
    [][(pc = "dispatch" /\ ~Recognized(chunkId))
          => /\ chunkSize >= 0
             /\ pos' = Min(Len(file),
                           IF chunkSize > Len(file) - pos THEN Len(file)
                           ELSE pos + chunkSize + (chunkSize % 2))
             /\ UNCHANGED <<ixmlFound, bextFound, formatSummary, bextSummary,
                            ixmlContent, xmlDisplay>>]_vars

\* an unrecognized chunk of odd size was skipped after an iXML document had
\* been stored, and the stored document is still the result
C19_Witness ==
    /\ pc = "done"
    /\ Len(headersRead) = 2
    /\ headersRead[1].id = IdIxml
    /\ ixmlContent = XmlToString(<<97>>)
    /\ ~Recognized(headersRead[2].id)
    /\ headersRead[2].size % 2 = 1
    /\ PayloadPresent(headersRead[2])

\* C20: with any number of iXML chunks, the stored iXML content is that of
\* the last iXML chunk whose payload was read in full (and empty when there
\* is none yet): an iXML chunk cut short by the end of the stream leaves it as
\* it was.  The found flag is set once any iXML header has been processed and
\* no later chunk resets it.  When done, the display reports that content.
C20_LastFullIxmlWins ==
    /\ \A i \in 1..Len(headersRead) :
          /\ LastIxmlReadInFull(i)
                => /\ ixmlContent = IxmlText(PayloadOf(headersRead[i]))
                   /\ pc = "done" => xmlDisplay.ixml = ixmlContent
          /\ (headersRead[i].id = IdIxml /\ Processed(i))
                => /\ ixmlFound
                   /\ pc = "done" => xmlDisplay.ixmlFound
    /\ (\A i \in 1..Len(headersRead) : ~LastIxmlReadInFull(i)) => ixmlContent = <<>>

\* two iXML chunks: the first was read in full, the second is cut short by the
\* end of the stream, and the result is the first one's document
C20_Witness ==
    /\ pc = "done"
    /\ Len(headersRead) = 2
    /\ headersRead[1].id = IdIxml /\ PayloadPresent(headersRead[1])
    /\ headersRead[2].id = IdIxml /\ ~PayloadPresent(headersRead[2])
    /\ xmlDisplay.ixmlFound
    /\ xmlDisplay.ixml = XmlToString(<<97>>)

=============================================================================
